---------------------------- MODULE Spec2Model ----------------------------
(***************************************************************************)
(* A model of vidar.js' utility core (src/unnamed/part_000):               *)
(*   - applyOptions / getDefaultOptions  (default-option merging)          *)
(*   - isKeyFrames / val                 (keyframe resolution)             *)
(*   - linearInterp / cosineInterp       (numeric and structural blending) *)
(*   - memoize / parseColor              (memoized colour parsing)         *)
(*   - PubSub                            (subscribe / _publish)            *)
(*                                                                         *)
(* JavaScript values are records tagged with field "t" (the result of      *)
(* typeof, with null kept apart by its own tag).  A number is a double:    *)
(* either a rational that a double holds exactly, or, when an operation's  *)
(* result has to be rounded, the operation on its operands (the double it  *)
(* yields is a function of them).  cosineInterp is followed at the         *)
(* arguments for which Math.cos returns an exact value.                    *)
(***************************************************************************)
EXTENDS Integers, Sequences, FiniteSets, TLC

VARIABLES
    classes,      \* variant -> [defaultOptions, inheritedDefaultOptions]
    target,       \* the object under construction: [proto, fields]
    opts,         \* the overrides handed to every applyOptions call
    pending,      \* variants whose constructor has not yet called applyOptions
    log,          \* one entry per applyOptions call of the current construction
    status,       \* "idle" | "building" | "done" | "failed"
    property,     \* the property descriptor handed to val
    time,         \* the time argument of the last val call
    valResult,    \* what the last val call did
    operandA, operandB,  \* the operands handed to an interpolator
    interpCall,   \* the last interpolator call: function, t and result
    cache,        \* memoize's cache: the own properties of the cache object
    fillStyle,    \* the fill style of parseColor's canvas context
    surfaceCalls, \* the strings the memoized factory was invoked with, in order
    colorCalls,   \* the parseColor calls made: <<string, result>>, in order
    callbacks,    \* the registry's _callbacks: whether it exists, and its own properties
    subscribed,   \* every <<type, handler>> subscribed so far, in order
    published     \* what the last _publish call did

optionVars == <<classes, target, opts, pending, log, status>>
valVars    == <<property, time, valResult>>
interpVars == <<operandA, operandB, interpCall>>
colorVars  == <<cache, fillStyle, surfaceCalls, colorCalls>>
pubsubVars == <<callbacks, subscribed, published>>
vars == <<optionVars, valVars, interpVars, colorVars, pubsubVars>>

\* What an operation of one component leaves alone: the other components.
exceptOptions == <<valVars, interpVars, colorVars, pubsubVars>>
exceptVal     == <<optionVars, interpVars, colorVars, pubsubVars>>
exceptInterp  == <<optionVars, valVars, colorVars, pubsubVars>>
exceptColor   == <<optionVars, valVars, interpVars, pubsubVars>>
exceptPubSub  == <<optionVars, valVars, interpVars, colorVars>>

-----------------------------------------------------------------------------
(* Generic helpers                                                         *)

EmptyMap == [k \in {} |-> 0]

Range(s) == {s[i] : i \in 1..Len(s)}

\* All sequences over S of length at most n without repeated elements.
RECURSIVE DistinctSeqs(_, _)
DistinctSeqs(S, n) ==
    IF n = 0 THEN {<<>>}
    ELSE LET shorter == DistinctSeqs(S, n - 1)
         IN  shorter \cup
             {Append(s, x) : <<s, x>> \in
                 {p \in shorter \X S : Len(p[1]) = n - 1 /\ p[2] \notin Range(p[1])}}

\* The object spread {...a, ...b}: b's value wins on a shared key.
Spread(a, b) ==
    [k \in DOMAIN a \cup DOMAIN b |-> IF k \in DOMAIN b THEN b[k] ELSE a[k]]

-----------------------------------------------------------------------------
(* Default-option merging: applyOptions, getDefaultOptions                 *)

MaxInherited == 2     \* longest inheritedDefaultOptions list
MaxOverrides == 2     \* most keys in an overrides object

Variants == {"A", "B", "C"}

\* Rank orders the variants so that inherited lists form a DAG, and is the
\* value a variant gives to every default it declares (so a merged value
\* names the source it came from).
Rank(v) == CASE v = "A" -> 1 [] v = "B" -> 2 [] v = "C" -> 3

\* The class hierarchy (the prototype chain): C extends B extends A.
Superclass(v) == CASE v = "A" -> "none" [] v = "B" -> "A" [] v = "C" -> "B"

RECURSIVE Ancestors(_)
Ancestors(v) ==
    IF Superclass(v) = "none" THEN {}
    ELSE {Superclass(v)} \cup Ancestors(Superclass(v))

DeclaredKeys == {"k", "m"}          \* keys a variant may declare a default for
OptionKeys   == DeclaredKeys \cup {"x"}   \* "x" is declared by no variant

ClassTables ==
    {c \in [Variants -> [defaultOptions : UNION {[S -> 1..3] : S \in SUBSET DeclaredKeys},
                         inheritedDefaultOptions : DistinctSeqs(Variants, MaxInherited)]] :
        \A v \in Variants :
            /\ \A k \in DOMAIN c[v].defaultOptions : c[v].defaultOptions[k] = Rank(v)
            /\ \A w \in Range(c[v].inheritedDefaultOptions) : Rank(w) < Rank(v)}

\* The while loop of getDefaultOptions: queue.shift(), spread, push the
\* inherited sources.
RECURSIVE GetDefaultOptionsLoop(_, _, _)
GetDefaultOptionsLoop(cls, queue, defaultOptions) ==
    IF queue = <<>> THEN defaultOptions
    ELSE LET currClass == Head(queue)
         IN  GetDefaultOptionsLoop(
                 cls,
                 Tail(queue) \o cls[currClass].inheritedDefaultOptions,
                 Spread(defaultOptions, cls[currClass].defaultOptions))

getDefaultOptions(cls, clazz) == GetDefaultOptionsLoop(cls, <<clazz>>, EmptyMap)

\* Object.getPrototypeOf(destObj) !== callingClass.prototype
IsSuperclassCallNever(destObj, callingClass) == FALSE
IsSuperclassCall(destObj, callingClass) == destObj.proto # callingClass

\* The validation loop: the first key of options (in for-in order) that
\* defaultOptions does not own, or "" when every key is valid.
RECURSIVE FirstInvalidOption(_, _)
FirstInvalidOptionHeadOnly(options, defaultOptions) ==
    IF options # <<>> /\ options[1][1] \notin DOMAIN defaultOptions
    THEN options[1][1] ELSE ""
FirstInvalidOption(options, defaultOptions) ==
    IF options = <<>> THEN ""
    ELSE IF options[1][1] \notin DOMAIN defaultOptions THEN options[1][1]
    ELSE FirstInvalidOption(Tail(options), defaultOptions)

\* An options object given as its for-in sequence of <<key, value>> pairs.
OptionsMap(options) ==
    [k \in {options[i][1] : i \in 1..Len(options)} |->
        LET i == CHOOSE j \in 1..Len(options) : options[j][1] = k IN options[i][2]]

\* applyOptions(options, destObj, callingClass): outcome "skipped" (the early
\* return), "error" (the throw, naming the key) or "applied"; destObj is the
\* object after the call and defaults the value of the local defaultOptions.
applyOptions(cls, options, destObj, callingClass) ==
    IF IsSuperclassCall(destObj, callingClass)
    THEN [outcome |-> "skipped", key |-> "", defaults |-> EmptyMap,
          destObj |-> destObj]
    ELSE LET defaultOptions == getDefaultOptions(cls, callingClass)
             bad == FirstInvalidOption(options, defaultOptions)
         IN  IF bad # ""
             THEN [outcome |-> "error", key |-> bad, defaults |-> defaultOptions,
                   destObj |-> destObj]
             ELSE [outcome |-> "applied", key |-> "", defaults |-> defaultOptions,
                   destObj |-> [destObj EXCEPT !.fields =
                       Spread(@, Spread(defaultOptions, OptionsMap(options)))]]

\* The overrides objects tried: every for-in order of at most MaxOverrides
\* option keys, each given the value 9 (no default has that value).
OverridesSet ==
    {[i \in 1..Len(ks) |-> <<ks[i], 9>>] :
        ks \in DistinctSeqs(OptionKeys, MaxOverrides)}

NoTarget == [proto |-> "none", fields |-> EmptyMap]

OptionsStart ==
    /\ classes \in ClassTables
    /\ target = NoTarget
    /\ opts = <<>>
    /\ pending = {}
    /\ log = <<>>
    /\ status = "idle"

\* `new V(overrides)`: a fresh object whose prototype is V.prototype; the
\* constructors of V and of its superclasses will each call applyOptions.
\* A constructor may have set a field before the calls (fields0).  Every
\* construction starts from a fresh object, so one construction is followed.
Construct(V, overrides, fields0) ==
    /\ status = "idle"
    /\ target' = [proto |-> V, fields |-> fields0]
    /\ opts' = overrides
    /\ pending' = {V} \cup Ancestors(V)
    /\ log' = <<>>
    /\ status' = "building"
    /\ UNCHANGED <<classes, exceptOptions>>

\* One constructor's call applyOptions(opts, target, c).
ApplyOptionsCall(c) ==
    /\ status = "building"
    /\ c \in pending
    /\ LET r == applyOptions(classes, opts, target, c)
       IN  /\ target' = r.destObj
           /\ log' = Append(log, [variant |-> c, outcome |-> r.outcome,
                                  key |-> r.key, defaults |-> r.defaults,
                                  before |-> target.fields,
                                  after |-> r.destObj.fields])
           /\ IF r.outcome = "error"
              THEN pending' = {} /\ status' = "failed"
              ELSE /\ pending' = pending \ {c}
                   /\ status' = IF pending = {c} THEN "done" ELSE "building"
    /\ UNCHANGED <<classes, opts, exceptOptions>>

OptionsIdle ==
    /\ classes = <<>>
    /\ target = NoTarget
    /\ opts = <<>>
    /\ pending = {}
    /\ log = <<>>
    /\ status = "idle"

NextOptions ==
    \/ \E V \in Variants, o \in OverridesSet, f \in {EmptyMap, [k \in {"k"} |-> 0]} :
          Construct(V, o, f)
    \/ \E c \in Variants : ApplyOptionsCall(c)


-----------------------------------------------------------------------------
(* JavaScript values                                                       *)

\* A number is the rational n/d in lowest terms with d > 0; NaN is 0/0 and
\* +Infinity is 1/0.
Abs(x) == IF x < 0 THEN 0 - x ELSE x

RECURSIVE GCD(_, _)
GCD(a, b) == IF b = 0 THEN a ELSE GCD(b, a % b)

NumQ(n, d) ==
    LET g == GCD(Abs(n), Abs(d))
        sgn == IF d < 0 THEN 0 - 1 ELSE 1
    IN  [t |-> "number", n |-> (sgn * n) \div g, d |-> (sgn * d) \div g]

Num(n)    == [t |-> "number", n |-> n, d |-> 1]
NaN       == [t |-> "number", n |-> 0, d |-> 0]
Infinity  == [t |-> "number", n |-> 1, d |-> 0]
Str(s)    == [t |-> "string", s |-> s]
Null      == [t |-> "null"]
Undefined == [t |-> "undefined"]
Fn(name)  == [t |-> "function", name |-> name]
\* An object: its prototype, whether Array.isArray holds of it, and its own
\* enumerable properties as <<key, value>> pairs in Object.keys order.
Obj(proto, isArray, entries) ==
    [t |-> "object", proto |-> proto, isArray |-> isArray, entries |-> entries]
\* The value a call of a function this module does not define returns.
Opaque(fn, args) == [t |-> "opaque", fn |-> fn, args |-> args]
Throw(msg) == [t |-> "throw", msg |-> msg]

TypeOf(v) == IF v.t = "null" THEN "object" ELSE v.t

IsNaN(x) == x.d = 0 /\ x.n = 0
IsInf(x) == x.d = 0 /\ x.n = 1

\* a <= b on numbers: false when either is NaN.
Leq(a, b) ==
    IF IsNaN(a) \/ IsNaN(b) THEN FALSE
    ELSE IF IsInf(b) THEN TRUE
    ELSE IF IsInf(a) THEN FALSE
    ELSE a.n * b.d <= b.n * a.d

\* a === b on numbers: NaN equals nothing, itself included.
StrictEqNum(a, b) == ~IsNaN(a) /\ ~IsNaN(b) /\ a = b

RECURSIVE IsPowerOfTwo(_)
IsPowerOfTwo(d) == d = 1 \/ (d > 1 /\ d % 2 = 0 /\ IsPowerOfTwo(d \div 2))

\* The number is written as a rational n/d, and a double holds it exactly.
IsExact(x) == "op" \notin DOMAIN x /\ IsPowerOfTwo(x.d)

\* The double that a op b yields when it is not a rational the model writes
\* exactly: the correctly rounded result, kept as the operation itself.
Rounded(op, a, b) == [t |-> "number", op |-> op, a |-> a, b |-> b]

\* The result of an operation on finite numbers whose exact value is q: q
\* when the operands are exact and a double holds q, the rounded result
\* otherwise.
NumResult(op, a, b, q) ==
    IF IsExact(a) /\ IsExact(b) /\ IsPowerOfTwo(q.d) THEN q ELSE Rounded(op, a, b)

\* Arithmetic on finite numbers.
NumAdd(a, b) ==
    IF IsExact(a) /\ IsExact(b)
    THEN NumResult("+", a, b, NumQ(a.n * b.d + b.n * a.d, a.d * b.d))
    ELSE Rounded("+", a, b)
NumSub(a, b) ==
    IF IsExact(a) /\ IsExact(b)
    THEN NumResult("-", a, b, NumQ(a.n * b.d - b.n * a.d, a.d * b.d))
    ELSE Rounded("-", a, b)
NumMul(a, b) ==
    IF IsExact(a) /\ IsExact(b)
    THEN NumResult("*", a, b, NumQ(a.n * b.n, a.d * b.d))
    ELSE Rounded("*", a, b)
NumDiv(a, b) ==
    IF IsExact(a) /\ IsExact(b)
    THEN NumResult("/", a, b, NumQ(a.n * b.d, a.d * b.n))
    ELSE Rounded("/", a, b)

Keys(obj) == [i \in 1..Len(obj.entries) |-> obj.entries[i][1]]
HasOwn(obj, key) == \E i \in 1..Len(obj.entries) : obj.entries[i][1] = key
\* obj[key]: undefined for a key the object does not have.
Get(obj, key) ==
    IF HasOwn(obj, key)
    THEN obj.entries[CHOOSE i \in 1..Len(obj.entries) : obj.entries[i][1] = key][2]
    ELSE Undefined

Truthy(v) ==
    CASE v.t = "number" -> ~IsNaN(v) /\ v.n # 0
      [] v.t = "string" -> v.s # ""
      [] v.t \in {"null", "undefined"} -> FALSE
      [] OTHER -> TRUE

-----------------------------------------------------------------------------
(* Interpolators: linearInterp, cosineInterp                               *)

\* !x1.hasOwnProperty(key) || !x2.hasOwnProperty(key), negated: the key is
\* kept only when both operands own it.
OwnedByFirst(x1, x2, key) == HasOwn(x1, key)
OwnedByBoth(x1, x2, key) == HasOwn(x1, key) /\ HasOwn(x2, key)

\* (1-t) * x1 + t * x2
LinearBlend(x1, x2, t) == NumAdd(NumMul(NumSub(Num(1), t), x1), NumMul(t, x2))

\* Math.cos(Math.PI / 2 * t), for the arguments at which the double it
\* returns is exact: Math.cos(0) is 1, Math.cos(Math.PI) is -1 and
\* Math.cos(2 * Math.PI) is 1.  (At other arguments the result is rounded:
\* t = 1 gives 6.123233995736766e-17 and t = 2/3 gives 0.5000000000000001.)
CosHalfPi(t) ==
    CASE t = Num(0) -> Num(1)
      [] t = Num(2) -> Num(0 - 1)
      [] t = Num(4) -> Num(1)

\* cos * x1 + (1-cos) * x2
CosineBlend(x1, x2, t) ==
    LET cos == CosHalfPi(t)
    IN  NumAdd(NumMul(cos, x1), NumMul(NumSub(Num(1), cos), x2))

RECURSIVE linearInterp(_, _, _, _)
RECURSIVE LinearInterpKeys(_, _, _, _, _)

\* linearInterp's for loop over keys: int collects the properties assigned so
\* far; a throw of a recursive call ends the loop.
LinearInterpKeys(keys, x1, x2, t, int) ==
    IF keys = <<>> THEN int
    ELSE LET key == Head(keys)
         IN  IF ~OwnedByBoth(x1, x2, key)
             THEN LinearInterpKeys(Tail(keys), x1, x2, t, int)
             ELSE LET r == linearInterp(Get(x1, key), Get(x2, key), t, Undefined)
                  IN  IF r.t = "throw" THEN r
                      ELSE LinearInterpKeys(Tail(keys), x1, x2, t,
                               [int EXCEPT !.entries = Append(@, <<key, r>>)])

linearInterp(x1, x2, t, objectKeys) ==
    IF TypeOf(x1) # TypeOf(x2) THEN Throw("Type mismatch")
    ELSE IF TypeOf(x1) # "number" /\ TypeOf(x1) # "object" THEN x1
    ELSE IF TypeOf(x1) = "object"
    THEN \* Object.getPrototypeOf(null) is a TypeError
         IF x1.t = "null" \/ x2.t = "null" THEN Throw("TypeError")
         ELSE IF x1.proto # x2.proto THEN Throw("Prototype mismatch")
         ELSE \* Object.keys(x1) is an array, and so truthy: objectKeys is
              \* never used
              LinearInterpKeys(Keys(x1), x1, x2, t, Obj(x1.proto, FALSE, <<>>))
    ELSE LinearBlend(x1, x2, t)

RECURSIVE cosineInterp(_, _, _, _)
RECURSIVE CosineInterpKeys(_, _, _, _, _)

CosineInterpKeys(keys, x1, x2, t, int) ==
    IF keys = <<>> THEN int
    ELSE LET key == Head(keys)
         IN  IF ~OwnedByBoth(x1, x2, key)
             THEN CosineInterpKeys(Tail(keys), x1, x2, t, int)
             ELSE LET r == cosineInterp(Get(x1, key), Get(x2, key), t, Undefined)
                  IN  IF r.t = "throw" THEN r
                      ELSE CosineInterpKeys(Tail(keys), x1, x2, t,
                               [int EXCEPT !.entries = Append(@, <<key, r>>)])

cosineInterp(x1, x2, t, objectKeys) ==
    IF TypeOf(x1) # TypeOf(x2) THEN Throw("Type mismatch")
    ELSE IF TypeOf(x1) # "number" /\ TypeOf(x1) # "object" THEN x1
    ELSE IF TypeOf(x1) = "object" /\ TypeOf(x2) = "object"
    THEN IF x1.t = "null" \/ x2.t = "null" THEN Throw("TypeError")
         ELSE IF x1.proto # x2.proto THEN Throw("Prototype mismatch")
         ELSE CosineInterpKeys(Keys(x1), x1, x2, t, Obj(x1.proto, FALSE, <<>>))
    ELSE CosineBlend(x1, x2, t)

MaxNum == 1     \* the numbers interpolated are 0, 10, ..., 10 * MaxNum

PropertyNames == {"x", "y"}

NumberOperands == {Num(10 * i) : i \in 0..MaxNum}

\* Nested operands: plain records and an instance of a class.
InnerOperands ==
    { Obj("Object", FALSE, <<<<"x", Num(0)>>>>),
      Obj("Object", FALSE, <<<<"x", Num(10)>>, <<"y", Num(0)>>>>),
      Obj("Color", FALSE, <<<<"x", Num(0)>>>>) }

PropertyValues == NumberOperands \cup {Str("s")} \cup InnerOperands

\* Structured operands: every insertion order of at most two properties.
StructuredOperands ==
    {Obj(proto, FALSE, [i \in 1..Len(ks) |-> <<ks[i], vs[i]>>]) :
        <<proto, ks, vs>> \in
            {q \in {"Object", "Color"} \X DistinctSeqs(PropertyNames, 2) \X
                   UNION {[1..n -> PropertyValues] : n \in 0..2} :
                Len(q[2]) = Len(q[3])}}

LinearTs == {Num(0), NumQ(1, 2)}
CosineTs == {Num(0), Num(2)}

NoInterpCall == [fn |-> "", t |-> Undefined, result |-> Undefined]

InterpIdle ==
    /\ operandA = Undefined
    /\ operandB = Undefined
    /\ interpCall = NoInterpCall

InterpStart ==
    /\ operandA \in StructuredOperands
    /\ operandB \in StructuredOperands
    /\ interpCall = NoInterpCall

\* One call linearInterp(operandA, operandB, t).  The interpolators read nothing but
\* their arguments, so one call per pair of operands is followed.
LinearInterpCall(t) ==
    /\ interpCall = NoInterpCall
    /\ interpCall' = [fn |-> "linearInterp", t |-> t,
                      result |-> linearInterp(operandA, operandB, t, Undefined)]
    /\ UNCHANGED <<operandA, operandB, exceptInterp>>

\* One call cosineInterp(operandA, operandB, t).
CosineInterpCall(t) ==
    /\ interpCall = NoInterpCall
    /\ interpCall' = [fn |-> "cosineInterp", t |-> t,
                      result |-> cosineInterp(operandA, operandB, t, Undefined)]
    /\ UNCHANGED <<operandA, operandB, exceptInterp>>

NextInterp ==
    \/ \E t \in LinearTs : LinearInterpCall(t)
    \/ \E t \in CosineTs : CosineInterpCall(t)

-----------------------------------------------------------------------------
(* Keyframe resolution: isKeyFrames, val                                   *)

NegHalves == 1     \* keyframe times reach down to -NegHalves/2
MaxHalf   == 3     \* and up to MaxHalf/2
MaxFrames == 3     \* most keyframes in a keyframe set
MaxMixedFrames == 2     \* most keyframes in a set holding values that are not numbers

\* Times are counted in halves, so that a key is either an integer (an array
\* index when it is not negative, enumerated first and in ascending order) or
\* a fraction (enumerated in insertion order).
TimeHalves == (0 - NegHalves)..MaxHalf

\* The property key under which a keyframe at h/2 is stored.
TimeKey(h) ==
    CASE h = 0 - 4 -> "-2" [] h = 0 - 3 -> "-1.5" [] h = 0 - 2 -> "-1"
      [] h = 0 - 1 -> "-0.5" [] h = 0 -> "0" [] h = 1 -> "0.5" [] h = 2 -> "1"
      [] h = 3 -> "1.5" [] h = 4 -> "2" [] h = 5 -> "2.5" [] h = 6 -> "3"
      [] h = 7 -> "3.5" [] h = 8 -> "4"

KeyTable == (0 - 4)..8

\* +key: the number a key string converts to, NaN for a name.
ToNumber(key) ==
    IF \E h \in KeyTable : TimeKey(h) = key
    THEN NumQ(CHOOSE h \in KeyTable : TimeKey(h) = key, 2)
    ELSE NaN

IsArrayIndex(key) == \E h \in KeyTable : TimeKey(h) = key /\ h >= 0 /\ h % 2 = 0

\* The order in which an object enumerates its own keys: array indices
\* first, ascending, then the other keys as inserted.
InKeyOrder(keys) ==
    \A i, j \in 1..Len(keys) :
        i < j => /\ IsArrayIndex(keys[j]) => IsArrayIndex(keys[i])
                 /\ (IsArrayIndex(keys[i]) /\ IsArrayIndex(keys[j])) =>
                        Leq(ToNumber(keys[i]), ToNumber(keys[j]))

NumericKeyframeValues == {Num(0), Num(6)}
KeyframeValues == NumericKeyframeValues \cup {Str("a"), Null}

\* The value lists tried: numbers for sets of up to MaxFrames keyframes,
\* values of any type for sets of up to MaxMixedFrames keyframes.
KeyframeValueLists ==
    UNION ({[1..n -> NumericKeyframeValues] : n \in 0..MaxFrames}
           \cup {[1..n -> KeyframeValues] : n \in 0..MaxMixedFrames})

KeyframeSets ==
    {Obj("Object", FALSE, [i \in 1..Len(hs) |-> <<TimeKey(hs[i]), vs[i]>>]) :
        <<hs, vs>> \in
            {p \in DistinctSeqs(TimeHalves, MaxFrames) \X KeyframeValueLists :
                /\ Len(p[1]) = Len(p[2])
                /\ InKeyOrder([i \in 1..Len(p[1]) |-> TimeKey(p[1][i])])}}

\* Descriptors that are not plain keyframe sets: objects with a foreign key,
\* keyframe sets carrying a reserved key, an array, primitives, a function.
OtherDescriptors ==
    { Obj("Object", FALSE, <<<<"x", Num(1)>>>>),
      Obj("Object", FALSE, <<<<"0", Num(0)>>, <<"x", Num(6)>>>>),
      Obj("Object", FALSE, <<<<"0", Num(0)>>, <<"1", Num(6)>>,
                             <<"interpolate", Fn("custom")>>>>),
      Obj("Object", FALSE, <<<<"interpolationKeys", Obj("Array", TRUE, <<>>)>>,
                             <<"1.5", Num(6)>>, <<"0.5", Num(0)>>>>),
      Obj("Array", TRUE, <<<<"0", Num(0)>>, <<"1", Num(6)>>>>),
      Num(5), Str("a"), Null, Undefined, Fn("dynamic") }

Descriptors == KeyframeSets \cup OtherDescriptors

TimeArgs == {NumQ(h, 2) : h \in TimeHalves} \cup {Undefined}

\* +key === NaN && !(key === "interpolate" || key === "interpolationKeys")
IsForeignKey(key) ==
    /\ StrictEqNum(ToNumber(key), NaN)
    /\ ~(key = "interpolate" \/ key = "interpolationKeys")

RECURSIVE IsKeyFramesLoop(_)
IsKeyFramesLoop(keys) ==
    IF keys = <<>> THEN TRUE
    ELSE IF IsForeignKey(Head(keys)) THEN FALSE
    ELSE IsKeyFramesLoop(Tail(keys))

isKeyFrames(prop) ==
    IF (TypeOf(prop) # "object" \/ prop.t = "null") \/ prop.isArray THEN FALSE
    ELSE IsKeyFramesLoop(Keys(prop))

\* lowerTime <= keyTime && keyTime <= time
IsLowerCandidateUnordered(lowerTime, keyTime, tm) == Leq(keyTime, tm)
IsLowerCandidate(lowerTime, keyTime, tm) == Leq(lowerTime, keyTime) /\ Leq(keyTime, tm)

\* time <= keyTime && keyTime <= upperTime
IsUpperCandidateAnyTime(upperTime, keyTime, tm) == Leq(keyTime, upperTime)
IsUpperCandidateStrict(upperTime, keyTime, tm) ==
    Leq(tm, keyTime) /\ tm # keyTime /\ Leq(keyTime, upperTime)
IsUpperCandidate(upperTime, keyTime, tm) == Leq(tm, keyTime) /\ Leq(keyTime, upperTime)

\* let lowerTime = 0, upperTime = Infinity, lowerValue = null, upperValue = null
InitialBounds ==
    [lowerTime |-> Num(0), upperTime |-> Infinity,
     lowerValue |-> Null, upperValue |-> Null]

\* The for-in scan over the keyframes.
RECURSIVE ScanKeyframes(_, _, _)
ScanKeyframes(entries, tm, b) ==
    IF entries = <<>> THEN b
    ELSE LET keyValue == Head(entries)[2]
             keyTime  == ToNumber(Head(entries)[1])
             b1 == IF IsLowerCandidate(b.lowerTime, keyTime, tm)
                   THEN [b EXCEPT !.lowerValue = keyValue, !.lowerTime = keyTime]
                   ELSE b
             b2 == IF IsUpperCandidate(b1.upperTime, keyTime, tm)
                   THEN [b1 EXCEPT !.upperValue = keyValue, !.upperTime = keyTime]
                   ELSE b1
         IN  ScanKeyframes(Tail(entries), tm, b2)

\* What a val call did: whether it returned or threw, the value or the
\* message, the bounds its scan ended with, and the call of the
\* interpolation function if one was made.
ValOutcome(outcome, value, error, branch, b) ==
    [outcome |-> outcome, value |-> value, error |-> error, branch |-> branch,
     bounds |-> b, called |-> FALSE, fn |-> "", x1 |-> Undefined,
     x2 |-> Undefined, progress |-> Undefined, keys |-> Undefined]

ValReturn(value, branch, b) == ValOutcome("return", value, "", branch, b)
ValThrow(error, b) == ValOutcome("throw", Undefined, error, "keyframes", b)

\* interpolate(lowerValue, upperValue, percentProgress, property.interpolationKeys)
\* with interpolate = property.interpolate || linearInterp
ValInterpolate(prop, b, percentProgress) ==
    LET custom == Get(prop, "interpolate")
        keys == Get(prop, "interpolationKeys")
        fn == IF Truthy(custom) THEN custom ELSE Fn("linearInterp")
        r == IF fn = Fn("linearInterp")
             THEN linearInterp(b.lowerValue, b.upperValue, percentProgress, keys)
             ELSE IF fn.t = "function"
             THEN Opaque(fn.name, <<b.lowerValue, b.upperValue, percentProgress, keys>>)
             ELSE Throw("TypeError")
        call == [called |-> fn.t = "function", fn |-> IF fn.t = "function" THEN fn.name ELSE "",
                 x1 |-> b.lowerValue, x2 |-> b.upperValue,
                 progress |-> percentProgress, keys |-> keys]
        base == IF r.t = "throw" THEN ValThrow(r.msg, b)
                ELSE ValReturn(r, "keyframes", b)
    IN  [base EXCEPT !.called = call.called, !.fn = call.fn, !.x1 = call.x1,
                     !.x2 = call.x2, !.progress = call.progress, !.keys = call.keys]

val(prop, element, tm) ==
    IF isKeyFrames(prop)
    THEN IF tm.t \in {"undefined", "null"}
         THEN ValThrow("|time| is undefined or null", InitialBounds)
         ELSE LET b == ScanKeyframes(prop.entries, tm, InitialBounds)
              IN  IF b.lowerValue = Null
                  THEN ValThrow("No keyframes located before or at time", b)
                  ELSE IF ~(TypeOf(b.lowerValue) = "number" \/ TypeOf(b.lowerValue) = "object")
                  THEN ValReturn(b.lowerValue, "keyframes", b)
                  ELSE IF b.upperValue = Null
                  THEN ValThrow("No keyframes located after or at time", b)
                  ELSE IF TypeOf(b.lowerValue) # TypeOf(b.upperValue)
                  THEN ValThrow("Type mismatch in keyframe values", b)
                  ELSE IF StrictEqNum(b.upperTime, b.lowerTime)
                  THEN ValReturn(b.upperValue, "keyframes", b)
                  ELSE LET progress == NumSub(tm, b.lowerTime)
                           percentProgress ==
                               NumDiv(progress, NumSub(b.upperTime, b.lowerTime))
                       IN  ValInterpolate(prop, b, percentProgress)
    ELSE IF TypeOf(prop) = "function"
    THEN ValReturn(Opaque(prop.name, <<element, tm>>), "function", InitialBounds)
    ELSE ValReturn(prop, "primitive", InitialBounds)

NotCalled == ValOutcome("none", Undefined, "", "", InitialBounds)

ValIdle ==
    /\ property = Undefined
    /\ time = Undefined
    /\ valResult = NotCalled

ValStart ==
    /\ property \in Descriptors
    /\ time = Undefined
    /\ valResult = NotCalled

\* One resolution: val(property, element, tm).  val reads nothing but its
\* arguments, so one call per descriptor is followed.
ValCall(tm) ==
    /\ valResult = NotCalled
    /\ time' = tm
    /\ valResult' = val(property, Str("element"), tm)
    /\ UNCHANGED <<property, exceptVal>>

NextVal == \E tm \in TimeArgs : ValCall(tm)

-----------------------------------------------------------------------------
(* Objects created by {} inherit from Object.prototype                     *)

\* Property names every {} object inherits from Object.prototype.
PrototypeMembers ==
    {"constructor", "__defineGetter__", "__defineSetter__", "hasOwnProperty",
     "__lookupGetter__", "__lookupSetter__", "isPrototypeOf",
     "propertyIsEnumerable", "toString", "valueOf", "__proto__",
     "toLocaleString"}

\* The number of turns a loop bounded by the length of the inherited value
\* takes: the length of the function found under the name, and none under
\* "__proto__", which yields Object.prototype, an object without a length.
FunctionLength(key) ==
    IF key \in {"__defineGetter__", "__defineSetter__"} THEN 2
    ELSE IF key \in {"constructor", "hasOwnProperty", "__lookupGetter__",
                     "__lookupSetter__", "isPrototypeOf", "propertyIsEnumerable"}
    THEN 1
    ELSE 0

\* key in obj, for an object literal with own properties `own`.
In(key, own) == key \in DOMAIN own \/ key \in PrototypeMembers

-----------------------------------------------------------------------------
(* Memoized colour parsing: memoize, parseColor, Color                     *)

MaxColorCalls == 4     \* parseColor calls followed

ColorStrings == {"red", "blue", "bogus", "constructor", "__proto__"}

Color(r, g, b, a) == [t |-> "object", proto |-> "Color", isArray |-> FALSE,
                      entries |-> <<<<"r", Num(r)>>, <<"g", Num(g)>>,
                                    <<"b", Num(b)>>, <<"a", Num(a)>>>>]

\* The rendering surface: assigning a string that is no colour to fillStyle
\* is ignored, and the pixel read back is the fill style's colour.
IsCssColor(str) == str \in {"red", "blue"}
InitialFillStyle == "black"
Pixel(style) ==
    CASE style = "red"   -> <<255, 0, 0, 255>>
      [] style = "blue"  -> <<0, 0, 255, 255>>
      [] style = "black" -> <<0, 0, 0, 255>>

\* The factory parseColor memoizes: clearRect, fillStyle = str, fillRect,
\* new Color(...getImageData().data).  Returns the colour and the fill style
\* the context is left with.
ParseOnSurface(style, str) ==
    LET style2 == IF IsCssColor(str) THEN str ELSE style
        data == Pixel(style2)
    IN  [color |-> Color(data[1], data[2], data[3], data[4]), fillStyle |-> style2]

\* cache[key], own or inherited: Object.prototype.constructor is Object,
\* __proto__ yields Object.prototype itself (an object with a null prototype
\* and no enumerable property), every other inherited name a function.
CacheGet(own, key) ==
    IF key \in DOMAIN own THEN own[key]
    ELSE IF key = "constructor" THEN Fn("Object")
    ELSE IF key = "__proto__" THEN Obj("null", FALSE, <<>>)
    ELSE Fn(key)

ColorIdle ==
    /\ cache = EmptyMap
    /\ fillStyle = InitialFillStyle
    /\ surfaceCalls = <<>>
    /\ colorCalls = <<>>

\* parseColor(str): the function memoize returns.
ParseColor(str) ==
    /\ Len(colorCalls) < MaxColorCalls
    /\ IF ~In(str, cache)
       THEN LET made == ParseOnSurface(fillStyle, str)
            IN  /\ cache' = [k \in DOMAIN cache \cup {str} |->
                                IF k = str THEN made.color ELSE cache[k]]
                /\ fillStyle' = made.fillStyle
                /\ surfaceCalls' = Append(surfaceCalls, str)
       ELSE UNCHANGED <<cache, fillStyle, surfaceCalls>>
    /\ colorCalls' = Append(colorCalls, <<str, CacheGet(cache', str)>>)
    /\ UNCHANGED exceptColor

NextColor == \E str \in ColorStrings : ParseColor(str)

-----------------------------------------------------------------------------
(* Notification registry: PubSub.subscribe, PubSub._publish                *)

MaxSubscriptions == 3     \* subscriptions followed

EventTypes == {"a", "b", "constructor"}
Events == {"e1", "e2"}

\* Handlers: h1 and h2 only take note of the event; s1 also subscribes h2
\* for type "a" while it handles an event; t1 throws.
Handlers == {"h1", "h2", "s1", "t1"}

NoRegistry == [exists |-> FALSE, own |-> EmptyMap]

\* this._callbacks[type] is truthy
HasCallbacks(reg, type) == reg.exists /\ In(type, reg.own)

\* subscribe(type, callback) on registry reg with subscription record subs:
\* the registry and the record after the call, and whether it threw.  Under
\* an inherited name _callbacks[type] is a function, which has no push.
Subscribe(reg, subs, type, callback) ==
    LET reg1 == [reg EXCEPT !.exists = TRUE]
    IN  IF type \in DOMAIN reg1.own
        THEN [reg |-> [reg1 EXCEPT !.own[type] = Append(@, callback)],
              subs |-> Append(subs, <<type, callback>>), threw |-> FALSE]
        ELSE IF type \in PrototypeMembers
        THEN [reg |-> reg1, subs |-> subs, threw |-> TRUE]
        ELSE [reg |-> [reg1 EXCEPT !.own =
                          [k \in DOMAIN reg1.own \cup {type} |->
                              IF k = type THEN <<callback>> ELSE reg1.own[k]]],
              subs |-> Append(subs, <<type, callback>>), threw |-> FALSE]

\* What a handler does when it is invoked: the registry and subscription
\* record afterwards, and whether the handler threw.
InvokeHandler(reg, subs, handler) ==
    IF handler = "s1" /\ Len(subs) <= MaxSubscriptions
    THEN Subscribe(reg, subs, "a", "h2")
    ELSE [reg |-> reg, subs |-> subs, threw |-> handler = "t1"]

\* The loop bound: l is read once, before the first handler runs.
LoopBound(lengthAtStart, lengthNow) == lengthAtStart

\* The for loop of _publish from index i (counted from 1): the handlers
\* invoked, the registry and subscription record afterwards, whether the
\* loop threw, and whether it was a handler that threw.  Under an inherited
\* name _callbacks[type][i] is undefined, and calling it is a TypeError.  An
\* exception of a handler leaves the loop at once.
RECURSIVE PublishLoop(_, _, _, _, _, _)
PublishLoop(reg, subs, type, i, l, invoked) ==
    LET lengthNow == IF type \in DOMAIN reg.own THEN Len(reg.own[type])
                     ELSE FunctionLength(type)
    IN  IF i > LoopBound(l, lengthNow)
        THEN [reg |-> reg, subs |-> subs, invoked |-> invoked, threw |-> FALSE,
              handlerThrew |-> FALSE]
        ELSE IF type \notin DOMAIN reg.own
        THEN [reg |-> reg, subs |-> subs, invoked |-> invoked, threw |-> TRUE,
              handlerThrew |-> FALSE]
        ELSE LET handler == reg.own[type][i]
                 after == InvokeHandler(reg, subs, handler)
             IN  IF after.threw
                 THEN [reg |-> after.reg, subs |-> after.subs,
                       invoked |-> Append(invoked, handler), threw |-> TRUE,
                       handlerThrew |-> TRUE]
                 ELSE PublishLoop(after.reg, after.subs, type, i + 1, l,
                                  Append(invoked, handler))

\* _publish(type, event)
Publish(reg, subs, type, event) ==
    IF ~reg.exists \/ ~HasCallbacks(reg, type)
    THEN [reg |-> reg, subs |-> subs, invoked |-> <<>>, threw |-> FALSE,
          handlerThrew |-> FALSE, returned |-> Undefined]
    ELSE LET l == IF type \in DOMAIN reg.own THEN Len(reg.own[type])
                  ELSE FunctionLength(type)
             done == PublishLoop(reg, subs, type, 1, l, <<>>)
         IN  [reg |-> done.reg, subs |-> done.subs, invoked |-> done.invoked,
              threw |-> done.threw, handlerThrew |-> done.handlerThrew,
              returned |-> IF done.threw THEN Undefined ELSE Str(event)]

NothingPublished ==
    [type |-> "", event |-> "", invoked |-> <<>>, threw |-> FALSE,
     handlerThrew |-> FALSE, returned |-> Undefined, subscribedBefore |-> <<>>, callbacksBefore |-> NoRegistry,
     subscribedAfter |-> <<>>, callbacksAfter |-> NoRegistry]

PubSubIdle ==
    /\ callbacks = NoRegistry
    /\ subscribed = <<>>
    /\ published = NothingPublished

\* A call subscribe(type, callback).
SubscribeCall(type, callback) ==
    /\ Len(subscribed) < MaxSubscriptions
    /\ LET r == Subscribe(callbacks, subscribed, type, callback)
       IN  /\ callbacks' = r.reg
           /\ subscribed' = r.subs
    /\ UNCHANGED <<published, exceptPubSub>>

\* A call _publish(type, event), handlers included.
PublishCall(type, event) ==
    LET r == Publish(callbacks, subscribed, type, event)
    IN  /\ callbacks' = r.reg
        /\ subscribed' = r.subs
        /\ published' = [type |-> type, event |-> event, invoked |-> r.invoked,
                         threw |-> r.threw, handlerThrew |-> r.handlerThrew,
                         returned |-> r.returned,
                         subscribedBefore |-> subscribed,
                         callbacksBefore |-> callbacks,
                         subscribedAfter |-> r.subs,
                         callbacksAfter |-> r.reg]
        /\ UNCHANGED exceptPubSub

NextPubSub ==
    \/ \E type \in EventTypes, callback \in Handlers : SubscribeCall(type, callback)
    \/ \E type \in EventTypes, event \in Events : PublishCall(type, event)

-----------------------------------------------------------------------------
(* Properties of default-option merging                                    *)

\* The sources in the order getDefaultOptions dequeues them: breadth-first
\* from the variant, each inherited list in its declared order.
RECURSIVE BreadthFirstOrder(_, _)
BreadthFirstOrder(cls, queue) ==
    IF queue = <<>> THEN <<>>
    ELSE <<Head(queue)>> \o
         BreadthFirstOrder(cls, Tail(queue) \o cls[Head(queue)].inheritedDefaultOptions)

\* The source nearest to the variant (earliest in breadth-first order, so the
\* shallowest, and among equally deep ones the earlier listed) declaring k.
NearestSource(cls, v, k) ==
    LET order == BreadthFirstOrder(cls, <<v>>)
        i == CHOOSE j \in 1..Len(order) :
                 /\ k \in DOMAIN cls[order[j]].defaultOptions
                 /\ \A h \in 1..(j - 1) : k \notin DOMAIN cls[order[h]].defaultOptions
    IN  order[i]

\* Every key declared by some source reachable from v.
ReachableKeys(cls, v) ==
    LET order == BreadthFirstOrder(cls, <<v>>)
    IN  UNION {DOMAIN cls[order[i]].defaultOptions : i \in 1..Len(order)}

\* C1: in the Effective Option Set that applyOptions computed for a variant,
\* every key holds the value of the nearest source declaring it: the
\* shallowest in breadth-first depth (the variant's own default first), and
\* at equal depth the one listed earlier.
C1_NearestSourceWins ==
    \A i \in 1..Len(log) :
        log[i].outcome # "skipped" =>
            \A k \in DOMAIN log[i].defaults :
                log[i].defaults[k] =
                    classes[NearestSource(classes, log[i].variant, k)].defaultOptions[k]

HasInvalidKey(cls, options, v) ==
    \E j \in 1..Len(options) : options[j][1] \notin ReachableKeys(cls, v)

\* C2: a call applyOptions(overrides, target, variant) made with the target's
\* own variant and an overrides object holding a key outside the variant's
\* merged default set fails with the invalid-option error, naming such a key,
\* and leaves the target exactly as it was.
C2_InvalidOverrideAppliesNothing ==
    \A i \in 1..Len(log) :
        (log[i].variant = target.proto /\ HasInvalidKey(classes, opts, log[i].variant)) =>
            /\ log[i].outcome = "error"
            /\ log[i].key \in {opts[j][1] : j \in 1..Len(opts)} \ ReachableKeys(classes, target.proto)
            /\ log[i].after = log[i].before
            /\ target.fields = log[i].before
            /\ status = "failed"

\* C2's case: the overrides hold a valid key first and an invalid key after
\* it, the target already had a field, and the call has failed.
C2_Witness ==
    /\ status = "failed"
    /\ Len(opts) = 2
    /\ opts[1][1] \in ReachableKeys(classes, target.proto)
    /\ opts[2][1] \notin ReachableKeys(classes, target.proto)
    /\ target.fields # EmptyMap
    /\ log[Len(log)].outcome = "error"

\* C3: while one object of variant V is constructed, every applyOptions call
\* made with an ancestor variant returns at once (target unchanged, no
\* error), at most one call gets past the gate and it is the call made with
\* V, and a construction that completes has merged exactly once.
C3_MergeOnlyByMostDerived ==
    /\ \A i \in 1..Len(log) :
          IF log[i].variant = target.proto
          THEN log[i].outcome \in {"applied", "error"}
          ELSE /\ log[i].outcome = "skipped"
               /\ log[i].after = log[i].before
    /\ Cardinality({i \in 1..Len(log) : log[i].outcome # "skipped"}) <= 1
    /\ status = "done" =>
          /\ {log[i].variant : i \in 1..Len(log)} = {target.proto} \cup Ancestors(target.proto)
          /\ Cardinality({i \in 1..Len(log) : log[i].outcome = "applied"}) = 1
          /\ \A i \in 1..Len(log) :
                log[i].outcome = "applied" =>
                    /\ log[i].variant = target.proto
                    /\ \A j \in 1..Len(log) : j > i => log[j].before = log[i].after
                    /\ target.fields = log[i].after

\* C3's case: a completed construction of C in which the merging call was
\* neither the first nor the last, and the overrides hold a key that the
\* ancestor A does not know.
C3_Witness ==
    /\ status = "done"
    /\ target.proto = "C"
    /\ Len(log) = 3
    /\ log[2].outcome = "applied"
    /\ HasInvalidKey(classes, opts, "A")
    /\ log[1].variant = "A"

-----------------------------------------------------------------------------
(* Properties of keyframe resolution                                       *)

IsReservedKey(key) == key \in {"interpolate", "interpolationKeys"}
IsNumericKey(key) == ~IsNaN(ToNumber(key))

\* A Keyframe Set as the data model defines it: a non-null, non-array object
\* whose every own key is numeric or reserved.
IsKeyframeSet(v) ==
    /\ v.t = "object"
    /\ ~v.isArray
    /\ \A i \in 1..Len(v.entries) :
          IsNumericKey(v.entries[i][1]) \/ IsReservedKey(v.entries[i][1])

\* The keyframes of a set as <<time, value>> pairs.
Keyframes(v) ==
    {<<ToNumber(v.entries[i][1]), v.entries[i][2]>> :
        i \in {j \in 1..Len(v.entries) : IsNumericKey(v.entries[j][1])}}

KeyTimes(v) == {f[1] : f \in Keyframes(v)}
StoredAt(v, tm) == (CHOOSE f \in Keyframes(v) : f[1] = tm)[2]
Lt(a, b) == Leq(a, b) /\ a # b
LargestKey(v) == CHOOSE k \in KeyTimes(v) : \A j \in KeyTimes(v) : Leq(j, k)
SmallestKey(v) == CHOOSE k \in KeyTimes(v) : \A j \in KeyTimes(v) : Leq(k, j)
NoNegativeKey(v) == \A k \in KeyTimes(v) : Leq(Num(0), k)

Resolved == valResult.outcome # "none"
ResolvedKeyframeSet ==
    /\ Resolved
    /\ IsKeyframeSet(property)
    /\ KeyTimes(property) # {}
    /\ time.t = "number"

ThrewMissingLower ==
    valResult.outcome = "throw" /\ valResult.error = "No keyframes located before or at time"
ThrewMissingUpper ==
    valResult.outcome = "throw" /\ valResult.error = "No keyframes located after or at time"

\* C4 as stated: resolving a Keyframe Set exactly at any of its keys returns
\* the value stored there, calls no interpolation function and raises no
\* error.
C4_ExactHitReturnsStored ==
    (ResolvedKeyframeSet /\ time \in KeyTimes(property)) =>
        /\ valResult.outcome = "return"
        /\ valResult.value = StoredAt(property, time)
        /\ ~valResult.called

\* C4 amended: the same, for a key that is not negative and whose stored
\* value is not null.
C4_ExactHitReturnsStoredNonNegative ==
    (/\ ResolvedKeyframeSet
     /\ time \in KeyTimes(property)
     /\ Leq(Num(0), time)
     /\ StoredAt(property, time) # Null) =>
        /\ valResult.outcome = "return"
        /\ valResult.value = StoredAt(property, time)
        /\ ~valResult.called

\* C4's case: three keyframes enumerated out of ascending order, resolved
\* exactly at the middle one.
C4_Witness ==
    /\ ResolvedKeyframeSet
    /\ Len(property.entries) = 3
    /\ time \in KeyTimes(property)
    /\ Lt(SmallestKey(property), time) /\ Lt(time, LargestKey(property))
    /\ Lt(ToNumber(property.entries[3][1]), ToNumber(property.entries[2][1]))
    /\ StoredAt(property, time) = Num(6)
    /\ valResult.value = Num(6)

\* C5 as stated: resolving strictly before the smallest key fails with the
\* missing-lower-bound error, strictly after the largest key with the
\* missing-upper-bound error.
C5_OutOfRangeFails ==
    ResolvedKeyframeSet =>
        /\ Lt(time, SmallestKey(property)) => ThrewMissingLower
        /\ Lt(LargestKey(property), time) => ThrewMissingUpper

\* C5 amended: strictly before the smallest key the missing-lower-bound error
\* is raised; strictly after the largest key of a set without negative keys,
\* the missing-upper-bound error is raised when the value stored at the
\* largest key is a number or a non-null object, and that value is returned
\* as it is when it is of any other type.
C5_OutOfRangeFailsForInterpolatedTypes ==
    ResolvedKeyframeSet =>
        /\ Lt(time, SmallestKey(property)) => ThrewMissingLower
        /\ (Lt(LargestKey(property), time) /\ NoNegativeKey(property)) =>
              LET last == StoredAt(property, LargestKey(property))
              IN  /\ (TypeOf(last) \in {"number", "object"} /\ last # Null) =>
                         ThrewMissingUpper
                  /\ TypeOf(last) \notin {"number", "object"} =>
                         valResult.outcome = "return" /\ valResult.value = last

\* C5's case: a set of two numeric keyframes, enumerated in descending
\* order, resolved after the largest key, has raised the upper-bound error.
C5_Witness ==
    /\ ResolvedKeyframeSet
    /\ Len(property.entries) = 2
    /\ Lt(ToNumber(property.entries[2][1]), ToNumber(property.entries[1][1]))
    /\ NoNegativeKey(property)
    /\ Lt(LargestKey(property), time)
    /\ StoredAt(property, LargestKey(property)).t = "number"
    /\ ThrewMissingUpper

\* C6: val treats a descriptor as a Keyframe Set exactly when it is one by
\* the data model's definition; an object with an own key that is neither
\* numeric nor reserved is a Constant, returned unchanged at every time.
C6_ForeignKeyMakesConstant ==
    Resolved =>
        /\ isKeyFrames(property) <=> IsKeyframeSet(property)
        /\ (property.t = "object" /\ ~IsKeyframeSet(property)) =>
              valResult.outcome = "return" /\ valResult.value = property

AllValuesNumeric(v) == \A f \in Keyframes(v) : f[2].t = "number"
TrueLower(v, tm) ==
    CHOOSE k \in KeyTimes(v) : Leq(k, tm) /\ \A j \in KeyTimes(v) : Leq(j, tm) => Leq(j, k)
TrueUpper(v, tm) ==
    CHOOSE k \in KeyTimes(v) : Leq(tm, k) /\ \A j \in KeyTimes(v) : Leq(tm, j) => Leq(k, j)
InRange(v, tm) == Leq(SmallestKey(v), tm) /\ Leq(tm, LargestKey(v))

BoundsAreTrueBounds ==
    LET lo == TrueLower(property, time)
        up == TrueUpper(property, time)
    IN  /\ valResult.bounds.lowerTime = lo
        /\ valResult.bounds.lowerValue = StoredAt(property, lo)
        /\ valResult.bounds.upperTime = up
        /\ valResult.bounds.upperValue = StoredAt(property, up)
        /\ lo # up =>
              /\ valResult.called
              /\ valResult.x1 = StoredAt(property, lo)
              /\ valResult.x2 = StoredAt(property, up)
              /\ valResult.progress = NumDiv(NumSub(time, lo), NumSub(up, lo))

\* C10 as stated: for a Keyframe Set with numeric values and a time between
\* its smallest and largest key, in whatever order the keys are enumerated,
\* the scan ends with the largest key <= time as lower bound and the
\* smallest key >= time as upper bound, and the interpolation function gets
\* the progress (time - lowerTime) / (upperTime - lowerTime).
C10_ScanFindsTrueBounds ==
    (ResolvedKeyframeSet /\ AllValuesNumeric(property) /\ InRange(property, time)) =>
        BoundsAreTrueBounds

\* C10 amended: the same, for a Keyframe Set without negative keys.
C10_ScanFindsTrueBoundsNonNegative ==
    (/\ ResolvedKeyframeSet
     /\ AllValuesNumeric(property)
     /\ NoNegativeKey(property)
     /\ InRange(property, time)) =>
        BoundsAreTrueBounds

\* C10's case: three numeric keyframes at 0, 1.5 and 0.5, enumerated in that
\* order, resolved at 1: the bounds are 0.5 and 1.5 and the progress is 1/2.
C10_Witness ==
    /\ ResolvedKeyframeSet
    /\ AllValuesNumeric(property)
    /\ Keys(property) = <<"0", "1.5", "0.5">>
    /\ time = Num(1)
    /\ valResult.called
    /\ valResult.fn = "linearInterp"
    /\ valResult.bounds.lowerTime = NumQ(1, 2)
    /\ valResult.bounds.upperTime = NumQ(3, 2)
    /\ valResult.progress = NumQ(1, 2)

-----------------------------------------------------------------------------
(* Properties of the interpolators                                         *)

OwnKeys(v) == {v.entries[i][1] : i \in 1..Len(v.entries)}

\* Two operands an interpolator accepts: of the same type and, when
\* structured, of the same prototype with acceptable values under every key
\* they share.
RECURSIVE SameShape(_, _)
SameShape(a, b) ==
    /\ TypeOf(a) = TypeOf(b)
    /\ a.t = "object" =>
          /\ b.t = "object"
          /\ a.proto = b.proto
          /\ \A key \in OwnKeys(a) \cap OwnKeys(b) : SameShape(Get(a, key), Get(b, key))

Reinterpolated(fn, a, b, t) ==
    IF fn = "linearInterp" THEN linearInterp(a, b, t, Undefined)
    ELSE cosineInterp(a, b, t, Undefined)

\* C9: for structured operands of the same shape, linearInterp and
\* cosineInterp return a new object with the prototype of the first operand
\* whose own keys are exactly the keys both operands own, each holding the
\* interpolation of the two values under that key at the same t.
C9_StructuralInterpKeepsCommonKeys ==
    (interpCall.fn # "" /\ SameShape(operandA, operandB)) =>
        LET r == interpCall.result
        IN  /\ r.t = "object"
            /\ r.proto = operandA.proto
            /\ OwnKeys(r) = OwnKeys(operandA) \cap OwnKeys(operandB)
            /\ Len(r.entries) = Cardinality(OwnKeys(r))
            /\ \A key \in OwnKeys(r) :
                  Get(r, key) = Reinterpolated(interpCall.fn, Get(operandA, key), Get(operandB, key),
                                               interpCall.t)
            /\ \A key \in OwnKeys(r) :
                  (Get(operandA, key).t = "number" /\ interpCall.fn = "linearInterp"
                       /\ interpCall.t = NumQ(1, 2)) =>
                      2 * Get(r, key).n = (Get(operandA, key).n + Get(operandB, key).n) * Get(r, key).d
            /\ \A key \in OwnKeys(r) :
                  (Get(operandA, key).t = "number" /\ interpCall.fn = "cosineInterp"
                       /\ interpCall.t = Num(2)) =>
                      Get(r, key) = Num(2 * Get(operandB, key).n - Get(operandA, key).n)

\* C9's case: {x:0, y:0} and {x:10} interpolated linearly at t = 1/2 have
\* given {x:5}.
C9_Witness ==
    /\ operandA = Obj("Object", FALSE, <<<<"x", Num(0)>>, <<"y", Num(0)>>>>)
    /\ operandB = Obj("Object", FALSE, <<<<"x", Num(10)>>>>)
    /\ interpCall.fn = "linearInterp"
    /\ interpCall.t = NumQ(1, 2)
    /\ interpCall.result = Obj("Object", FALSE, <<<<"x", Num(5)>>>>)

\* The same for cosineInterp at t = 2, where the weight cos(pi) is -1 and
\* the result is 2 * b - a, with a nested operand under a shared key.
C9_WitnessCosine ==
    /\ operandA = Obj("Object", FALSE, <<<<"y", Obj("Object", FALSE, <<<<"x", Num(10)>>, <<"y", Num(0)>>>>)>>,
                                    <<"x", Num(0)>>>>)
    /\ operandB = Obj("Object", FALSE, <<<<"y", Obj("Object", FALSE, <<<<"x", Num(0)>>>>)>>>>)
    /\ interpCall.fn = "cosineInterp"
    /\ interpCall.t = Num(2)
    /\ interpCall.result =
           Obj("Object", FALSE, <<<<"y", Obj("Object", FALSE, <<<<"x", Num(0 - 10)>>>>)>>>>)

-----------------------------------------------------------------------------
(* Properties of memoized colour parsing                                   *)

Occurrences(seq, x) == Cardinality({i \in 1..Len(seq) : seq[i] = x})

\* C7: every string parseColor has been called with reached the rendering
\* surface exactly once, on the first call with it, and every call with that
\* string returned what the first one returned, which is what the cache
\* holds for it.
C7_SurfaceInvokedOncePerString ==
    \A i \in 1..Len(colorCalls) :
        LET str == colorCalls[i][1]
            first == CHOOSE j \in 1..Len(colorCalls) :
                         /\ colorCalls[j][1] = str
                         /\ \A h \in 1..(j - 1) : colorCalls[h][1] # str
        IN  /\ Occurrences(surfaceCalls, str) = 1
            /\ colorCalls[i][2] = colorCalls[first][2]
            /\ str \in DOMAIN cache
            /\ cache[str] = colorCalls[first][2]

-----------------------------------------------------------------------------
(* Properties of the notification registry                                 *)

\* The handlers subscribed for a type, in subscription order.
RECURSIVE HandlersFor(_, _)
HandlersFor(subs, type) ==
    IF subs = <<>> THEN <<>>
    ELSE IF Head(subs)[1] = type
         THEN <<Head(subs)[2]>> \o HandlersFor(Tail(subs), type)
         ELSE HandlersFor(Tail(subs), type)

\* C8: the last _publish(type, event), none of whose handlers threw, invoked
\* exactly the handlers that were subscribed for the type before it began,
\* once per subscription and in subscription order (so none subscribed for
\* another type, and none subscribed while it ran), raised no error, and
\* returned the event it was given when it had handlers to invoke; when no
\* handler was ever subscribed for the type it invoked nothing and left the
\* registry as it was.
C8_PublishInvokesSubscribedInOrder ==
    (published.type # "" /\ ~published.handlerThrew) =>
        LET expected == HandlersFor(published.subscribedBefore, published.type)
        IN  /\ published.invoked = expected
            /\ ~published.threw
            /\ expected # <<>> => published.returned = Str(published.event)
            /\ expected = <<>> =>
                  /\ published.callbacksAfter = published.callbacksBefore
                  /\ published.subscribedAfter = published.subscribedBefore

-----------------------------------------------------------------------------
(* Specifications: one per component, the other components at rest         *)

InitOptions == OptionsStart /\ ValIdle /\ InterpIdle /\ ColorIdle /\ PubSubIdle
SpecOptions == InitOptions /\ [][NextOptions]_vars

InitVal == ValStart /\ OptionsIdle /\ InterpIdle /\ ColorIdle /\ PubSubIdle
SpecVal == InitVal /\ [][NextVal]_vars

InitInterp == InterpStart /\ OptionsIdle /\ ValIdle /\ ColorIdle /\ PubSubIdle
SpecInterp == InitInterp /\ [][NextInterp]_vars

InitColor == ColorIdle /\ OptionsIdle /\ ValIdle /\ InterpIdle /\ PubSubIdle
SpecColor == InitColor /\ [][NextColor]_vars

InitPubSub == PubSubIdle /\ OptionsIdle /\ ValIdle /\ InterpIdle /\ ColorIdle
SpecPubSub == InitPubSub /\ [][NextPubSub]_vars

=============================================================================
